---- MODULE Spec2Model ----
(***************************************************************************)
(* Model of parse-ip (src/src/lib.rs): the endpoint parser `parse` and the *)
(* Display rendering of IpVersion.                                         *)
(*                                                                         *)
(* Text is a sequence of one-character strings.  An Option is a sequence   *)
(* of length at most one (<<>> is None, <<x>> is Some(x)).  An IPv4        *)
(* address is its four octets, an IPv6 address its eight 16-bit segments.  *)
(***************************************************************************)
EXTENDS Integers, Sequences, FiniteSets, TLC

(***************************************************************************)
(* Characters                                                              *)
(***************************************************************************)

\* char::to_digit: the digits of radix 16 in value order (lower case)
HexChars == <<"0","1","2","3","4","5","6","7","8","9","a","b","c","d","e","f">>

\* upper-case hex letters, values 10..15
HexUpper == <<"A","B","C","D","E","F">>

\* letters that are alphanumeric and no hex digit
OtherLetters == {"g","h","i","l","n","p","s","t","v","w","x","z","T"}

\* char::is_whitespace
IsWhitespace(c) == c \in {" ", "\t", "\n"}

\* the value of c as a hex digit, 16 if it is none
DigitOf(c) ==
  IF \E i \in 1..16 : HexChars[i] = c THEN (CHOOSE i \in 1..16 : HexChars[i] = c) - 1
  ELSE IF \E i \in 1..6 : HexUpper[i] = c THEN (CHOOSE i \in 1..6 : HexUpper[i] = c) + 9
  ELSE 16

\* char::to_digit(radix) as an Option
ToDigit(c, radix) == IF DigitOf(c) < radix THEN <<DigitOf(c)>> ELSE <<>>

\* char::is_alphanumeric() || c == '_'
IsTagChar(c) == ToDigit(c, 16) # <<>> \/ c \in OtherLetters \/ c = "_"

(***************************************************************************)
(* Text helpers (str::find, contains, starts_with, ends_with, slicing)     *)
(***************************************************************************)

\* &s[from..] with a 1-based first index
Drop(s, from) == SubSeq(s, from, Len(s))

\* is pat a substring of s at 1-based position i
MatchAt(s, pat, i) ==
  /\ i >= 1
  /\ i + Len(pat) - 1 <= Len(s)
  /\ \A k \in 1..Len(pat) : s[i + k - 1] = pat[k]

\* str::find as an Option of the 1-based position of the first match
Find(s, pat) ==
  LET hits == {i \in 1..Len(s) : MatchAt(s, pat, i)}
  IN IF hits = {} THEN <<>> ELSE <<CHOOSE i \in hits : \A j \in hits : i <= j>>

Contains(s, c) == \E i \in 1..Len(s) : s[i] = c

StartsWith(s, c) == Len(s) >= 1 /\ s[1] = c

EndsWith(s, c) == Len(s) >= 1 /\ s[Len(s)] = c

(***************************************************************************)
(* The platform's address grammar (core::net::parser), as the calls of     *)
(* parse use it.  A reader takes the text and a 1-based position and       *)
(* returns [ok, val, pos]; on failure the position is the one it was       *)
(* given (read_atomically).                                                *)
(***************************************************************************)

Fail(pos) == [ok |-> FALSE, val |-> <<>>, pos |-> pos]

\* number of leading characters of s from pos that are digits in radix
RECURSIVE DigitRun(_, _, _)
DigitRun(s, pos, radix) ==
  IF pos <= Len(s) /\ ToDigit(s[pos], radix) # <<>>
  THEN 1 + DigitRun(s, pos + 1, radix)
  ELSE 0

\* value of the n digits from pos, or maxVal + 1 once it exceeds maxVal
\* (checked_mul / checked_add / try_into failing)
RECURSIVE DigitsValue(_, _, _, _, _, _)
DigitsValue(s, pos, n, radix, maxVal, acc) ==
  IF n = 0 THEN acc
  ELSE IF acc * radix + DigitOf(s[pos]) > maxVal THEN maxVal + 1
  ELSE DigitsValue(s, pos + 1, n - 1, radix, maxVal, acc * radix + DigitOf(s[pos]))

\* Parser::read_number; maxDigits = 0 stands for None
ReadNumber(s, pos, radix, maxDigits, allowZeroPrefix, maxVal) ==
  LET Checked(n, v) ==
        IF n = 0 THEN Fail(pos)
        ELSE IF maxDigits > 0 /\ n > maxDigits THEN Fail(pos)
        ELSE IF ~allowZeroPrefix /\ s[pos] = "0" /\ n > 1 THEN Fail(pos)
        ELSE IF v > maxVal THEN Fail(pos)
        ELSE [ok |-> TRUE, val |-> v, pos |-> pos + n]
      Counted(n) == Checked(n, DigitsValue(s, pos, n, radix, maxVal, 0))
  IN Counted(DigitRun(s, pos, radix))

\* Parser::read_given_char as the position after the character, or 0
ReadGivenChar(s, pos, c) == IF pos <= Len(s) /\ s[pos] = c THEN pos + 1 ELSE 0

\* Parser::read_separator: the position the inner reader starts at, or 0
ReadSeparator(s, pos, sep, index) ==
  IF index = 0 THEN pos ELSE ReadGivenChar(s, pos, sep)

\* Parser::read_ipv4_addr: four decimal octets separated by '.'
RECURSIVE ReadOctets(_, _, _, _)
ReadOctets(s, pos, i, acc) ==
  LET Octet(o) ==
        IF ~o.ok THEN Fail(pos)
        ELSE ReadOctets(s, o.pos, i + 1, Append(acc, o.val))
      After(p1) ==
        IF p1 = 0 THEN Fail(pos) ELSE Octet(ReadNumber(s, p1, 10, 3, FALSE, 255))
  IN IF i = 4 THEN [ok |-> TRUE, val |-> acc, pos |-> pos]
     ELSE After(ReadSeparator(s, pos, ".", i))

ReadIpv4Addr(s, pos) ==
  LET Atomic(r) == IF r.ok THEN r ELSE Fail(pos)
  IN Atomic(ReadOctets(s, pos, 0, <<>>))

\* read_groups inside Parser::read_ipv6_addr: up to limit segments from pos,
\* the last two possibly an embedded IPv4 address
RECURSIVE ReadGroups(_, _, _, _, _)
ReadGroups(s, pos, limit, i, acc) ==
  LET Group(g) ==
        IF g.ok THEN ReadGroups(s, g.pos, limit, i + 1, Append(acc, g.val))
        ELSE [n |-> i, v4 |-> FALSE, groups |-> acc, pos |-> pos]
      Embedded4(ip, p1) ==
        IF ip.ok
        THEN [n |-> i + 2, v4 |-> TRUE, pos |-> ip.pos,
              groups |-> acc \o <<ip.val[1] * 256 + ip.val[2],
                                  ip.val[3] * 256 + ip.val[4]>>]
        ELSE Group(IF p1 = 0 THEN Fail(pos) ELSE ReadNumber(s, p1, 16, 4, TRUE, 65535))
      After(p1) ==
        Embedded4(IF i < limit - 1 /\ p1 # 0 THEN ReadIpv4Addr(s, p1) ELSE Fail(pos), p1)
  IN IF i >= limit THEN [n |-> i, v4 |-> FALSE, groups |-> acc, pos |-> pos]
     ELSE After(ReadSeparator(s, pos, ":", i))

Zeros(n) == [i \in 1..n |-> 0]

\* Parser::read_ipv6_addr
ReadIpv6Addr(s, pos) ==
  LET Joined(head, tail) ==
        [ok |-> TRUE, pos |-> tail.pos,
         val |-> head.groups \o Zeros(8 - head.n - tail.n) \o tail.groups]
      Colons(head, c2) ==
        IF c2 = 0 THEN Fail(pos)
        ELSE Joined(head, ReadGroups(s, c2, 8 - (head.n + 1), 0, <<>>))
      Colon(head, c1) ==
        IF c1 = 0 THEN Fail(pos) ELSE Colons(head, ReadGivenChar(s, c1, ":"))
      AfterHead(head) ==
        IF head.n = 8 THEN [ok |-> TRUE, val |-> head.groups, pos |-> head.pos]
        ELSE IF head.v4 THEN Fail(pos)
        ELSE Colon(head, ReadGivenChar(s, head.pos, ":"))
  IN AfterHead(ReadGroups(s, pos, 8, 0, <<>>))

\* read_port with the number wrapped into 16 bits instead of checked
ReadPortWrapping(s, pos) ==
  LET Digits(p1, n) ==
        IF n = 0 THEN Fail(pos)
        ELSE [ok |-> TRUE, pos |-> p1 + n,
              val |-> DigitsValue(s, p1, n, 10, 99999999, 0) % 65536]
      After(p1) == IF p1 = 0 THEN Fail(pos) ELSE Digits(p1, DigitRun(s, p1, 10))
  IN After(ReadGivenChar(s, pos, ":"))

\* Parser::read_port: ':' and a decimal u16
ReadPort(s, pos) ==
  LET Number(r) == IF r.ok THEN r ELSE Fail(pos)
      After(p1) == IF p1 = 0 THEN Fail(pos) ELSE Number(ReadNumber(s, p1, 10, 0, TRUE, 65535))
  IN After(ReadGivenChar(s, pos, ":"))

\* the decimal digits of u32::MAX
U32MaxDigits == <<4, 2, 9, 4, 9, 6, 7, 2, 9, 5>>

\* do the n decimal digits of s from pos, leading zeros aside, exceed u32::MAX
RECURSIVE DigitsAbove(_, _, _, _)
DigitsAbove(s, pos, n, k) ==
  LET Digit(d) ==
        IF k = 0 /\ d = 0 THEN DigitsAbove(s, pos + 1, n - 1, 0)
        ELSE IF k = 0 /\ n # 10 THEN n > 10
        ELSE IF d # U32MaxDigits[k + 1] THEN d > U32MaxDigits[k + 1]
        ELSE DigitsAbove(s, pos + 1, n - 1, k + 1)
  IN IF n = 0 THEN FALSE ELSE Digit(DigitOf(s[pos]))

\* Parser::read_scope_id: '%' and a decimal u32 (the value is not kept by
\* parse, which reads only ip() and port())
ReadScopeId(s, pos) ==
  LET Digits(p1, n) ==
        IF n = 0 \/ DigitsAbove(s, p1, n, 0) THEN Fail(pos)
        ELSE [ok |-> TRUE, val |-> 0, pos |-> p1 + n]
      After(p1) == IF p1 = 0 THEN Fail(pos) ELSE Digits(p1, DigitRun(s, p1, 10))
  IN After(ReadGivenChar(s, pos, "%"))

\* Parser::read_socket_addr_v4: address, then port
ReadSocketAddrV4(s, pos) ==
  LET Port(ip, port) ==
        IF ~port.ok THEN Fail(pos)
        ELSE [ok |-> TRUE, pos |-> port.pos,
              val |-> [ver |-> "V4", addr |-> ip.val, port |-> port.val]]
      Ip(ip) == IF ~ip.ok THEN Fail(pos) ELSE Port(ip, ReadPort(s, ip.pos))
  IN Ip(ReadIpv4Addr(s, pos))

\* Parser::read_socket_addr_v6: '[' address, optional scope id, ']' and port
ReadSocketAddrV6(s, pos) ==
  LET Port(ip, port) ==
        IF ~port.ok THEN Fail(pos)
        ELSE [ok |-> TRUE, pos |-> port.pos,
              val |-> [ver |-> "V6", addr |-> ip.val, port |-> port.val]]
      Close(ip, p2) == IF p2 = 0 THEN Fail(pos) ELSE Port(ip, ReadPort(s, p2))
      Scope(ip, scope) ==
        Close(ip, ReadGivenChar(s, IF scope.ok THEN scope.pos ELSE ip.pos, "]"))
      Ip(ip) == IF ~ip.ok THEN Fail(pos) ELSE Scope(ip, ReadScopeId(s, ip.pos))
      Open(p1) == IF p1 = 0 THEN Fail(pos) ELSE Ip(ReadIpv6Addr(s, p1))
  IN Open(ReadGivenChar(s, pos, "["))

\* Parser::parse_with: the reader's value if it consumed the whole text
ParseWith(s, r) == IF r.ok /\ r.pos = Len(s) + 1 THEN <<r.val>> ELSE <<>>

\* a reader's result with its value tagged by the address family
WithFamily(r, ver) == IF r.ok THEN [r EXCEPT !.val = [ver |-> ver, addr |-> r.val]] ELSE r

\* Ipv6Addr::from_str as an Option of the eight segments
Ipv6FromStr(s) == ParseWith(s, ReadIpv6Addr(s, 1))

\* Parser::read_ip_addr: IPv4 first, else IPv6
ReadIpAddr(s, pos) ==
  LET V4(v4) == IF v4.ok THEN v4 ELSE WithFamily(ReadIpv6Addr(s, pos), "V6")
  IN V4(WithFamily(ReadIpv4Addr(s, pos), "V4"))

\* IpAddr::from_str as an Option of [ver, addr]
IpAddrFromStr(s) == ParseWith(s, ReadIpAddr(s, 1))

\* Parser::read_socket_addr: V4 first, else V6
ReadSocketAddr(s, pos) ==
  LET V4(v4) == IF v4.ok THEN v4 ELSE ReadSocketAddrV6(s, pos)
  IN V4(ReadSocketAddrV4(s, pos))

\* SocketAddr::from_str as an Option of [ver, addr, port]
SocketAddrFromStr(s) == ParseWith(s, ReadSocketAddr(s, 1))

(***************************************************************************)
(* Display for IpVersion (core::net Display of Ipv4Addr and Ipv6Addr)      *)
(***************************************************************************)

\* "{}" of an unsigned number in the given radix, without leading zeros
RECURSIVE NumText(_, _)
NumText(n, radix) ==
  IF n < radix THEN <<HexChars[n + 1]>>
  ELSE Append(NumText(n \div radix, radix), HexChars[(n % radix) + 1])

\* Display of Ipv4Addr: the four octets in decimal, separated by '.'
RECURSIVE Ipv4Text(_)
Ipv4Text(a) ==
  IF Len(a) = 1 THEN NumText(a[1], 10)
  ELSE NumText(a[1], 10) \o <<".">> \o Ipv4Text(Tail(a))

\* fmt_subslice: segments in lower-case hex, separated by ':'
RECURSIVE FmtSubslice(_)
FmtSubslice(chunk) ==
  IF Len(chunk) = 0 THEN <<>>
  ELSE IF Len(chunk) = 1 THEN NumText(chunk[1], 16)
  ELSE NumText(chunk[1], 16) \o <<":">> \o FmtSubslice(Tail(chunk))

\* length of the run of zero segments that starts at i
RECURSIVE ZeroRun(_, _)
ZeroRun(seg, i) == IF i <= Len(seg) /\ seg[i] = 0 THEN 1 + ZeroRun(seg, i + 1) ELSE 0

\* the first longest run of zero segments, as [start, len]
LongestZeroRun(seg) ==
  LET Span(best) == [start |-> best, len |-> ZeroRun(seg, best)]
  IN Span(CHOOSE i \in 1..8 :
            /\ \A j \in 1..8 : ZeroRun(seg, j) <= ZeroRun(seg, i)
            /\ \A j \in 1..(i - 1) : ZeroRun(seg, j) < ZeroRun(seg, i))

\* Display of Ipv6Addr: "::ffff:a.b.c.d" for an IPv4-mapped address, else
\* hex segments with the first longest run of two or more zeros as "::"
Ipv6Text(seg) ==
  LET Compress(z) ==
        IF z.len > 1
        THEN FmtSubslice(SubSeq(seg, 1, z.start - 1)) \o <<":", ":">> \o
             FmtSubslice(SubSeq(seg, z.start + z.len, 8))
        ELSE FmtSubslice(seg)
  IN IF SubSeq(seg, 1, 6) = <<0, 0, 0, 0, 0, 65535>>
     THEN <<":", ":", "f", "f", "f", "f", ":">> \o
          Ipv4Text(<<seg[7] \div 256, seg[7] % 256, seg[8] \div 256, seg[8] % 256>>)
     ELSE Compress(LongestZeroRun(seg))

\* impl Display for IpVersion
Display(ver, addr) == IF ver = "V4" THEN Ipv4Text(addr) ELSE Ipv6Text(addr)

(***************************************************************************)
(* parse                                                                   *)
(***************************************************************************)

Ok(ver, addr, port) ==
  [ok |-> TRUE, ver |-> ver, addr |-> addr, port |-> port, msg |-> "", text |-> <<>>]

Err(msg, text) ==
  [ok |-> FALSE, ver |-> "", addr |-> <<>>, port |-> <<>>, msg |-> msg, text |-> text]

\* whitespace removed at both ends only (str::trim)
RECURSIVE TrimWhitespace(_)
TrimWhitespace(s) ==
  IF Len(s) > 0 /\ IsWhitespace(s[1]) THEN TrimWhitespace(Tail(s))
  ELSE IF Len(s) > 0 /\ IsWhitespace(s[Len(s)]) THEN TrimWhitespace(SubSeq(s, 1, Len(s) - 1))
  ELSE s

\* input.chars().filter(|c| !c.is_whitespace()).collect()
StripWhitespace(s) == SelectSeq(s, LAMBDA c : ~IsWhitespace(c))

\* the scheme cut one character short: the text after the first ":/"
StripSchemeShort(s) ==
  LET After(pos) == IF pos # <<>> THEN Drop(s, pos[1] + 2) ELSE s
  IN After(Find(s, <<":", "/", "/">>))

\* the text after the first "://", if there is one
StripScheme(s) ==
  LET After(pos) == IF pos # <<>> THEN Drop(s, pos[1] + 3) ELSE s
  IN After(Find(s, <<":", "/", "/">>))

\* does the text after the colon look like an address
LooksLikeAddress(addr_part) ==
  \/ Contains(addr_part, ".")
  \/ Contains(addr_part, ":")
  \/ StartsWith(addr_part, "[")

\* the prefix test without the check for a scoped literal's '%'
IsSocketPrefixAnyText(s, colon_pos) ==
  /\ \A k \in 1..(colon_pos - 1) : IsTagChar(s[k])
  /\ colon_pos > 1
  /\ colon_pos < Len(s)

\* is the text before the first colon (at 1-based colon_pos) a
\* socket-notation prefix
IsSocketPrefix(s, colon_pos) ==
  /\ \A k \in 1..(colon_pos - 1) : IsTagChar(s[k])
  /\ colon_pos > 1
  /\ colon_pos < Len(s)
  /\ ~Contains(s, "%")

\* the text after a socket-notation prefix ("inet:", "tcp4:"), if there is one
StripSocketPrefix(s) ==
  LET After(colon) ==
        IF colon # <<>> /\ IsSocketPrefix(s, colon[1])
           /\ LooksLikeAddress(Drop(s, colon[1] + 1))
        THEN Drop(s, colon[1] + 1)
        ELSE s
  IN After(Find(s, <<":">>))

\* the working string the parsing stages see
Normalize(text) == StripSocketPrefix(StripScheme(StripWhitespace(text)))

\* the socket address stage with the port left out of the result
TrySocketAddrNoPort(w) ==
  LET Sock(sock) == IF sock # <<>> THEN <<Ok(sock[1].ver, sock[1].addr, <<>>)>> ELSE <<>>
  IN Sock(SocketAddrFromStr(w))

\* the socket address stage that also splits an unbracketed literal at its
\* last colon into address and port
TrySocketAddrSplitting(w) ==
  LET Split(addr, port) ==
        IF addr # <<>> /\ port.ok /\ port.pos = Len(w) + 1
        THEN <<Ok(addr[1].ver, addr[1].addr, <<port.val>>)>>
        ELSE <<>>
      Last(colon) ==
        Split(IpAddrFromStr(SubSeq(w, 1, colon - 1)), ReadPort(w, colon))
      Sock(sock) ==
        IF sock # <<>> THEN <<Ok(sock[1].ver, sock[1].addr, <<sock[1].port>>)>>
        ELSE IF Contains(w, ":")
        THEN Last(CHOOSE i \in 1..Len(w) : w[i] = ":" /\ \A j \in (i + 1)..Len(w) : w[j] # ":")
        ELSE <<>>
  IN Sock(SocketAddrFromStr(w))

\* socket address with port: the result, if the stage returns
TrySocketAddr(w) ==
  LET Sock(sock) ==
        IF sock # <<>> THEN <<Ok(sock[1].ver, sock[1].addr, <<sock[1].port>>)>> ELSE <<>>
  IN Sock(SocketAddrFromStr(w))

\* the bracket stage falling through to the later stages when the text
\* between the brackets is no IPv6 literal
TryBracketedFallingThrough(w) ==
  LET Inside(addr) == IF addr # <<>> THEN <<Ok("V6", addr[1], <<>>)>> ELSE <<>>
  IN IF StartsWith(w, "[") /\ EndsWith(w, "]")
     THEN Inside(Ipv6FromStr(SubSeq(w, 2, Len(w) - 1)))
     ELSE <<>>

\* bracketed IPv6 without port: Ok or the bracket error, if the stage applies
TryBracketed(w) ==
  LET Inside(addr_str, addr) ==
        IF addr # <<>> THEN <<Ok("V6", addr[1], <<>>)>>
        ELSE <<Err("Invalid IPv6 address in brackets: ", addr_str)>>
      Interior(addr_str) == Inside(addr_str, Ipv6FromStr(addr_str))
  IN IF StartsWith(w, "[") /\ EndsWith(w, "]")
     THEN Interior(SubSeq(w, 2, Len(w) - 1))
     ELSE <<>>

\* scoped IPv6: the address before the first '%', if it is one
TryScoped(w) ==
  LET Addr(addr) == IF addr # <<>> THEN <<Ok("V6", addr[1], <<>>)>> ELSE <<>>
      Zone(percent) ==
        IF percent # <<>> THEN Addr(Ipv6FromStr(SubSeq(w, 1, percent[1] - 1))) ELSE <<>>
  IN Zone(Find(w, <<"%">>))

\* plain IPv4 or IPv6 address, or the final error
ParseBare(w) ==
  LET Addr(addr) ==
        IF addr # <<>> THEN Ok(addr[1].ver, addr[1].addr, <<>>)
        ELSE Err("Invalid IP address: ", w)
  IN Addr(IpAddrFromStr(w))

\* the stages in order on the working string: the result and the stage
\* that returned it
Resolve(w) ==
  LET Scoped(scoped) ==
        IF scoped # <<>> THEN [res |-> scoped[1], ret |-> "scoped"]
        ELSE [res |-> ParseBare(w), ret |-> "bare"]
      Bracketed(bracket) ==
        IF bracket # <<>> THEN [res |-> bracket[1], ret |-> "bracket"]
        ELSE Scoped(TryScoped(w))
      Socket(sock) ==
        IF sock # <<>> THEN [res |-> sock[1], ret |-> "socket"]
        ELSE Bracketed(TryBracketed(w))
  IN Socket(TrySocketAddr(w))

\* pub fn parse
Parse(text) == Resolve(Normalize(text))

(***************************************************************************)
(* The inputs: address literals with the address each denotes, and the     *)
(* endpoint texts built from them                                          *)
(***************************************************************************)

\* how many of OctetPool the dotted quads draw their octets from
NumOctets == 2

\* how many of BadOctetPool replace one octet of a dotted quad
NumBadOctets == 2

\* dotted texts have 1..MaxParts components
MaxParts == 5

\* how many of GroupPool the IPv6 literals draw their segments from
NumGroups == 2

\* an IPv6 literal "head::tail" has at most MaxGroups segments written
MaxGroups == 2

\* how many of PortPool are written after an address
NumPorts == 4

\* whitespace is inserted after the first 0..MaxSpacePos characters
MaxSpacePos == 3

\* octet texts with the octet each denotes
OctetPool ==
  << [text |-> <<"1", "0">>, val |-> 10],
     [text |-> <<"2", "5", "5">>, val |-> 255],
     [text |-> <<"0">>, val |-> 0],
     [text |-> <<"1", "9", "2">>, val |-> 192] >>

\* component texts that denote no octet: above 255, zero-prefixed, empty
BadOctetPool ==
  << <<"2", "5", "6">>, <<"0", "1">>, <<>>, <<"3", "0", "0">> >>

\* segment texts with the segment each denotes
GroupPool ==
  << [text |-> <<"2", "0", "0", "1">>, val |-> 8193],
     [text |-> <<"0">>, val |-> 0],
     [text |-> <<"F", "f">>, val |-> 255],
     [text |-> <<"d", "b", "8">>, val |-> 3512] >>

\* port texts with the number each denotes
PortPool ==
  << [text |-> <<"8", "0">>, val |-> 80],
     [text |-> <<"6", "5", "5", "3", "5">>, val |-> 65535],
     [text |-> <<"6", "5", "5", "3", "6">>, val |-> 65536],
     [text |-> <<"0">>, val |-> 0],
     [text |-> <<"9", "9", "9", "9", "9">>, val |-> 99999],
     [text |-> <<"0", "0", "4", "4", "3">>, val |-> 443] >>

First(pool, n) == {pool[i] : i \in 1..(IF n < Len(pool) THEN n ELSE Len(pool))}

Octets == First(OctetPool, NumOctets)

BadOctets == First(BadOctetPool, NumBadOctets)

Groups == First(GroupPool, NumGroups)

Ports == First(PortPool, NumPorts)

\* zone identifiers after '%'
Zones == { <<"e", "t", "h", "0">>, <<"3">>,
           <<"x", ":", "/", "/", "1", "0", ".", "0", ".", "0", ".", "0">> }

\* socket-notation tags
Tags == { <<"t", "c", "p", "6">>, <<"i", "n", "_", "a">>, <<"a">> }

\* scheme names
Schemes == { <<"h", "t", "t", "p">>, <<"w", "s", "+", "x">>, <<>> }

\* whitespace characters
Blanks == {" ", "\t"}

\* the texts of parts, joined by sep
RECURSIVE Join(_, _)
Join(parts, sep) ==
  IF Len(parts) = 0 THEN <<>>
  ELSE IF Len(parts) = 1 THEN parts[1]
  ELSE parts[1] \o <<sep>> \o Join(Tail(parts), sep)

Texts(items) == [i \in 1..Len(items) |-> items[i].text]

Vals(items) == [i \in 1..Len(items) |-> items[i].val]

\* sequences over S of length 0..n
SeqsUpTo(S, n) == UNION {[1..k -> S] : k \in 0..n}

Lit(text, ver, addr) == [text |-> text, ver |-> ver, addr |-> addr]

\* valid dotted quads
Quads == {Lit(Join(Texts(q), "."), "V4", Vals(q)) : q \in [1..4 -> Octets]}

\* dotted quads with one component that is no octet
BadQuads ==
  {Lit(Join([k \in 1..4 |-> IF k = i THEN bad ELSE OctetPool[1].text], "."), "", <<>>) :
     i \in 1..4, bad \in BadOctets}

\* dotted texts with a component count other than 4
WrongCounts ==
  {Lit(Join([k \in 1..n |-> o.text], "."), "", <<>>) :
     n \in (1..MaxParts) \ {4}, o \in Octets}

\* compressed IPv6 literals head::tail
Compressed ==
  {Lit(Join(Texts(ht[1]), ":") \o <<":", ":">> \o Join(Texts(ht[2]), ":"), "V6",
       Vals(ht[1]) \o Zeros(8 - Len(ht[1]) - Len(ht[2])) \o Vals(ht[2])) :
     ht \in {x \in SeqsUpTo(Groups, MaxGroups) \X SeqsUpTo(Groups, MaxGroups) :
               Len(x[1]) + Len(x[2]) <= MaxGroups}}

\* expanded IPv6 literals: eight segments, the first and the last drawn
Expanded ==
  {Lit(Join(Texts(<<a, a, b, b, a, b, a, b>>), ":"), "V6",
       Vals(<<a, a, b, b, a, b, a, b>>)) : a, b \in Groups}

\* IPv6 literals with an embedded IPv4 address
Embedded ==
  {Lit(<<":", ":", "f", "f", "f", "f", ":">> \o q.text, "V6",
       <<0, 0, 0, 0, 0, 65535, q.addr[1] * 256 + q.addr[2], q.addr[3] * 256 + q.addr[4]>>) :
     q \in {x \in Quads : x.addr[1] = x.addr[3] /\ x.addr[2] = x.addr[4]}}

\* colon texts that are no IPv6 literal: two "::", seven segments, a
\* five-digit segment, a letter that is no hex digit, a trailing colon
BadV6 ==
  { Lit(<<":", ":", "1", ":", ":">>, "", <<>>),
    Lit(<<"1", ":", "2", ":", "3", ":", "4", ":", "5", ":", "6", ":", "7">>, "", <<>>),
    Lit(<<"1", "2", "3", "4", "5", ":", ":">>, "", <<>>),
    Lit(<<":", ":", "g">>, "", <<>>),
    Lit(<<":", ":", "1", ":">>, "", <<>>),
    Lit(<<>>, "", <<>>) }

\* the literals of the repository's tests, with the address each denotes
TestLiterals ==
  { Lit(<<"1", "9", "2", ".", "1", "6", "8", ".", "1", ".", "1">>,
        "V4", <<192, 168, 1, 1>>),
    Lit(<<"2", "0", "0", "1", ":", "d", "b", "8", ":", ":", "1">>,
        "V6", <<8193, 3512, 0, 0, 0, 0, 0, 1>>),
    Lit(<<":", ":", "1">>,
        "V6", <<0, 0, 0, 0, 0, 0, 0, 1>>),
    Lit(<<"2", "0", "0", "1", ":", "d", "b", "8", ":", "8", "5", "a", "3", ":", ":", "8", "a", "2", "e", ":", "3", "7", "0", ":", "7", "3", "3", "4">>,
        "V6", <<8193, 3512, 34211, 0, 0, 35374, 880, 29492>>),
    Lit(<<"f", "e", "8", "0", ":", ":", "1", "f", "f", ":", "f", "e", "2", "3", ":", "4", "5", "6", "7", ":", "8", "9", "0", "a">>,
        "V6", <<65152, 0, 0, 0, 511, 65059, 17767, 35082>>),
    Lit(<<"3", "0", "0", ".", "1", ".", "1", ".", "1">>,
        "", <<>>),
    Lit(<<"i", "n", "v", "a", "l", "i", "d">>,
        "", <<>>) }

Literals == Quads \cup BadQuads \cup WrongCounts \cup Compressed \cup Expanded
            \cup Embedded \cup BadV6 \cup TestLiterals

NoPort == [text |-> <<>>, val |-> 0]

\* the shapes of endpoint text: which parts surround the literal
Forms == {"bare", "port", "bracket", "bracketport", "scoped", "bracketscoped",
          "bracketscopedport"}

HasPort(form) == form \in {"port", "bracketport", "bracketscopedport"}

HasZone(form) == form \in {"scoped", "bracketscoped", "bracketscopedport"}

Endpoints ==
  {[form |-> f, lit |-> l, port |-> p, zone |-> z] :
     f \in Forms, l \in Literals, p \in Ports \cup {NoPort}, z \in Zones \cup {<<>>}}

\* each form with the parts it has; a bracketed scoped literal with a port
\* takes the first port only
WellFormed(e) ==
  /\ HasPort(e.form) <=> e.port # NoPort
  /\ HasZone(e.form) <=> e.zone # <<>>
  /\ e.form = "bracketscopedport" => e.port = PortPool[1]

\* the text of an endpoint
EndpointText(e) ==
  (IF e.form \in {"bare", "port", "scoped"} THEN <<>> ELSE <<"[">>)
  \o e.lit.text
  \o (IF HasZone(e.form) THEN <<"%">> \o e.zone ELSE <<>>)
  \o (IF e.form \in {"bare", "port", "scoped"} THEN <<>> ELSE <<"]">>)
  \o (IF HasPort(e.form) THEN <<":">> \o e.port.text ELSE <<>>)

(***************************************************************************)
(* The state machine: a caller parses an endpoint text, then parses a text *)
(* derived from it (tagged, with a scheme, with whitespace inserted, or    *)
(* the rendering of the address it got)                                    *)
(***************************************************************************)

VARIABLES
  ep,      \* the endpoint the first call is about
  how,     \* how the current input was made: "base" or the derivation
  input,   \* the text given to parse
  pc,      \* "ready": parse is about to run on input; "done": it returned
  result,  \* what parse returned
  ret,     \* the stage of parse that returned
  base     \* the previous call's input and result, once a derived call is made

vars == <<ep, how, input, pc, result, ret, base>>

NoResult == Err("", <<>>)

NoBase == [input |-> <<>>, result |-> NoResult]

Init ==
  /\ ep \in {e \in Endpoints : WellFormed(e)}
  /\ how = "base"
  /\ input = EndpointText(ep)
  /\ pc = "ready"
  /\ result = NoResult
  /\ ret = ""
  /\ base = NoBase

\* parse(input) runs and returns
Call ==
  /\ pc = "ready"
  /\ pc' = "done"
  /\ \E r \in {Parse(input)} : result' = r.res /\ ret' = r.ret
  /\ UNCHANGED <<ep, how, input, base>>

\* the caller goes on to parse text, derived from the input of the call
\* that returned, when that call was of one of the kinds in from
Derive(from, kind, text) ==
  /\ pc = "done"
  /\ how \in from
  /\ how' = kind
  /\ input' = text
  /\ base' = [input |-> input, result |-> result]
  /\ pc' = "ready"
  /\ result' = NoResult
  /\ ret' = ""
  /\ UNCHANGED ep

\* tag + ":" + E
Tagged == \E tag \in Tags : Derive({"base"}, "tag", tag \o <<":">> \o input)

\* scheme + "://" + E
Schemed == \E s \in Schemes : Derive({"base"}, "scheme", s \o <<":", "/", "/">> \o input)

\* one whitespace character inserted after the first i characters
Spaced ==
  \E c \in Blanks, i \in 0..MaxSpacePos :
    /\ i <= Len(input)
    /\ Derive({"base"}, "space", SubSeq(input, 1, i) \o <<c>> \o Drop(input, i + 1))

\* whitespace inserted before every character and at the end, also of a
\* text with a tag or a scheme
SpacedOut ==
  \E c \in Blanks :
    Derive({"base", "tag", "scheme"}, "space",
           [k \in 1..(2 * Len(input) + 1) |->
              IF k % 2 = 1 THEN c ELSE input[k \div 2]])

\* the address the first call returned, rendered by Display and parsed
Rendered ==
  /\ result.ok
  /\ Derive({"base"}, "render", Display(result.ver, result.addr))

Next == Call \/ Tagged \/ Schemed \/ Spaced \/ SpacedOut \/ Rendered

Spec == Init /\ [][Next]_vars

(***************************************************************************)
(* Properties                                                              *)
(***************************************************************************)

Returned(kind) == pc = "done" /\ how = kind

SchemeMark == <<":", "/", "/">>

\* does the text, whitespace aside, hold a "://"
HasSchemeMark(text) == Find(StripWhitespace(text), SchemeMark) # <<>>

SameEndpoint(r1, r2) == r1.ok /\ r2.ok /\ r1.ver = r2.ver /\ r1.addr = r2.addr /\ r1.port = r2.port

\* C1: parse of a valid bare IPv4 or IPv6 literal returns Ok with the
\* family and exactly the address the literal denotes and no port; parse of
\* a dotted text with a component that is no octet, or with a component
\* count other than 4, fails.
C1_BareLiteral ==
  (Returned("base") /\ ep.form = "bare") =>
    /\ ep.lit.ver # "" => result = Ok(ep.lit.ver, ep.lit.addr, <<>>)
    /\ ep.lit \in BadQuads \cup WrongCounts => ~result.ok

\* C2: the address parse returned, rendered by Display and parsed again,
\* comes back equal and with no port.
C2_RenderRoundTrip ==
  Returned("render") => result = Ok(base.result.ver, base.result.addr, <<>>)

\* C3: for an endpoint text E that parse accepts, that has no scheme and
\* that holds '.', ':' or starts with '[', parse(tag + ":" + E) returns what
\* parse(E) returned.
C3_TagIdempotent ==
  (Returned("tag") /\ base.result.ok /\ ~HasSchemeMark(base.input)
     /\ LooksLikeAddress(base.input))
    => SameEndpoint(result, base.result)

C5_WhitespaceInsensitive ==
  (Returned("space") /\ base.result.ok) => result = base.result

C5_Witness ==
  /\ Returned("space") /\ base.result.ok /\ result.ok
  /\ ep.form = "port"
  /\ \E i \in 2..(Len(input) - 1) : IsWhitespace(input[i])

\* C6: a valid IPv4 literal followed by ':' and a port in 0..65535 parses
\* to that V4 address with Some(port), and a valid IPv6 literal in brackets
\* followed by ':' and such a port to that V6 address with Some(port); the
\* combined address and port stage is the one that returns.
C6_AddressAndPort ==
  (Returned("base") /\ ep.port.val <= 65535
     /\ \/ ep.form = "port" /\ ep.lit.ver = "V4"
        \/ ep.form = "bracketport" /\ ep.lit.ver = "V6")
    => result = Ok(ep.lit.ver, ep.lit.addr, <<ep.port.val>>) /\ ret = "socket"

C6_Witness ==
  /\ Returned("base") /\ ep.form = "bracketport" /\ ep.lit.ver = "V6"
  /\ ep.port.val = 65535 /\ result.ok /\ result.port = <<65535>>

C8_PortOutOfRange ==
  pc = "done" =>
    /\ (HasPort(ep.form) /\ ep.port.val > 65535) => ~result.ok
    /\ (result.ok /\ result.port # <<>>) => HasPort(ep.form) /\ result.port = <<ep.port.val>>

C8_Witness ==
  /\ Returned("tag") /\ ep.form = "port" /\ ep.lit.ver = "V4"
  /\ ep.port.val > 65535 /\ ~result.ok

\* C9 as stated: a valid IPv6 literal followed by '%' and any zone text
\* parses to that V6 address with no port.
C9_ScopedAnyZone ==
  (Returned("base") /\ ep.form = "scoped" /\ ep.lit.ver = "V6")
    => result = Ok("V6", ep.lit.addr, <<>>)

\* C9 amended: a valid IPv6 literal followed by '%' and a zone text that
\* holds no "://" parses to that V6 address with no port; the zone is
\* dropped and the stripping stages leave the text as it is.
C9_ScopedZone ==
  (Returned("base") /\ ep.form = "scoped" /\ ep.lit.ver = "V6" /\ ~HasSchemeMark(ep.zone))
    => /\ result = Ok("V6", ep.lit.addr, <<>>)
       /\ Normalize(input) = input

C9_Witness ==
  /\ Returned("base") /\ ep.form = "scoped" /\ ep.lit.ver = "V6"
  /\ ep.zone = <<"e", "t", "h", "0">> /\ ep.lit.addr[1] # 0
  /\ result.ok /\ ret = "scoped"

\* the text between the brackets of a bracketed endpoint
Interior(e) == IF HasZone(e.form) THEN e.lit.text \o <<"%">> \o e.zone ELSE e.lit.text

BracketError(text) == Err("Invalid IPv6 address in brackets: ", text)

\* C10: a working string that starts with '[', ends with ']' and is no
\* address with port is decided by the bracket stage: Ok with the V6
\* address between the brackets and no port, or else the error "Invalid
\* IPv6 address in brackets: " with the text between the brackets, also
\* when that text holds '%'; the later stages do not run.
C10_BracketFailsFast ==
  /\ (pc = "done" /\ StartsWith(Normalize(input), "[") /\ EndsWith(Normalize(input), "]"))
       => /\ ret = "bracket"
          /\ result.ok => result.ver = "V6" /\ result.port = <<>>
          /\ ~result.ok => result.msg = "Invalid IPv6 address in brackets: "
  /\ (Returned("base") /\ ep.form \in {"bracket", "bracketscoped"} /\ ~HasSchemeMark(input))
       => result = IF ep.form = "bracket" /\ ep.lit.ver = "V6"
                   THEN Ok("V6", ep.lit.addr, <<>>)
                   ELSE BracketError(Interior(ep))

C10_Witness ==
  /\ Returned("base") /\ ep.form = "bracketscoped" /\ ep.lit.ver = "V6"
  /\ result = BracketError(Interior(ep))

====
